---- MODULE Spec2Model ----
(***************************************************************************)
(* The six media scripts of the repository, each a linear driver around    *)
(* the external tool ffmpeg:                                               *)
(*   crop_video_horizontal, process_videos_simple, process_videos_hq_simple*)
(*   archive/create_image_gif_simple, archive/create_hq_image_gif,         *)
(*   archive/create_image_gif.                                             *)
(*                                                                         *)
(* A behaviour fixes one script and a set of input files, then runs the    *)
(* script up to MaxRuns times over the same directory; the filesystem a    *)
(* run ends with is the filesystem the next run starts from.               *)
(*                                                                         *)
(* One action is one step of a driver: for an invocation, the bookkeeping  *)
(* that precedes it, the invocation itself and the branch taken on its     *)
(* result; the cleanup block and the final report are steps of their own.  *)
(*                                                                         *)
(* The external tool is opaque.  An invocation ends in one of three ways:  *)
(*   "ok"       exit status 0; the output file(s) named on the command     *)
(*              line are written (possible only if its inputs exist)       *)
(*   "fail"     nonzero exit status (subprocess.CalledProcessError);       *)
(*              nothing is written                                         *)
(*   "notfound" the executable cannot be launched (FileNotFoundError);     *)
(*              nothing is written                                         *)
(*                                                                         *)
(* Paths are tuples of components relative to the script's hardcoded       *)
(* directory (assets_dir = output_dir in every script).                    *)
(***************************************************************************)
EXTENDS Integers, Sequences, FiniteSets, TLC

VARIABLES script, fs, fs0, pc, idx, run, calls, stdout, exit, how, avail,
          normalized_images, video_segments, prev, same

vars == <<script, fs, fs0, pc, idx, run, calls, stdout, exit, how, avail,
          normalized_images, video_segments, prev, same>>

-----------------------------------------------------------------------------
(* Bounds *)

\* number of times a script is run over the same directory
MaxRuns == 2

\* frames one successful per-image frame invocation writes
\* (the scripts ask for 3 s at 8 or 10 fps)
FramesPerImage == 1

-----------------------------------------------------------------------------
(* Program constants *)

target_width_crop == 1280
target_height_crop == 720
crop_size == 704
crop_x == 0
SRC_HEIGHT == 1280

target_width_simple == 800
target_height_simple == 600
target_width_hq == 1200
target_height_hq == 900

Scripts == {"crop_video_horizontal", "process_videos_simple",
            "process_videos_hq_simple", "create_image_gif_simple",
            "create_hq_image_gif", "create_image_gif"}

ToolOutcomes == {"ok", "fail", "notfound"}

-----------------------------------------------------------------------------
(* Formatting and paths *)

Digits == <<"0", "1", "2", "3", "4", "5", "6", "7", "8", "9">>

\* Python's {n:0wd}: decimal, zero-padded to at least w digits
RECURSIVE Fmt(_, _)
Fmt(n, w) ==
    IF w <= 1 /\ n < 10 THEN Digits[n + 1]
    ELSE Fmt(n \div 10, w - 1) \o Digits[(n % 10) + 1]

\* pathlib's  dir / name
Join(dir, name) == Append(dir, name)

\* p is d or lies below d
Under(p, d) == Len(p) >= Len(d) /\ SubSeq(p, 1, Len(d)) = d

Range(s) == {s[k] : k \in 1..Len(s)}

images == <<"affordance.png", "GraspDatasetFigure.png",
            "HandsFigure_Horizontal.png", "HandsFigure.png",
            "OverallFigure.png", "robot_hand_banana.png">>

input_video == <<"20251012_1752_01k7d6513netgbcc05y5aaaasb.mp4">>
output_video == <<"video_horizontal.mp4">>

aa_video == <<"aa.mp4">>
bbbb_video == <<"BBBB.mp4">>
isaac_video == <<"IsaacLabGraspExecution.mp4">>
screencast_video == <<"Screencast from 04-04-2025 12_54_11 PM.mp4">>

\* the files each script checks for, in the order it checks them
Inputs(s) ==
    CASE s = "crop_video_horizontal" -> <<input_video>>
      [] s = "process_videos_simple" ->
            <<aa_video, bbbb_video, isaac_video, screencast_video>>
      [] s = "process_videos_hq_simple" ->
            <<aa_video, bbbb_video, screencast_video>>
      [] OTHER -> [k \in 1..Len(images) |-> <<images[k]>>]

\* the final artifact of each script
Output(s) ==
    CASE s = "crop_video_horizontal" -> output_video
      [] s = "process_videos_simple" -> <<"i2g2ro_combined_final.gif">>
      [] s = "process_videos_hq_simple" -> <<"i2g2ro_combined_hq_simple.gif">>
      [] s = "create_hq_image_gif" -> <<"survey_images_hq.gif">>
      [] OTHER -> <<"survey_images_animated.gif">>

\* the temporary directory of each script that uses one
TempDir(s) ==
    CASE s = "create_image_gif_simple" -> <<"temp_normalized">>
      [] s = "create_hq_image_gif" -> <<"temp_hq">>
      [] s = "create_image_gif" -> <<"temp_frames">>
      [] OTHER -> <<>>

-----------------------------------------------------------------------------
(* The filesystem: a function from the existing paths to what wrote them   *)

\* what a path holds: who wrote it, the lines written (list files only) and
\* the run that wrote it (its modification time)
File(by, data, at) == [by |-> by, data |-> data, at |-> at]

Content(by, data) == File(by, data, run)

\* a filesystem without the modification times
Strip(f) == [p \in DOMAIN f |-> [by |-> f[p].by, data |-> f[p].data]]

Exists(f, p) == p \in DOMAIN f

Put(f, ps, c) == [p \in DOMAIN f \cup ps |-> IF p \in ps THEN c ELSE f[p]]

\* Path.mkdir
Mkdir(f, d) == Put(f, {d}, Content("mkdir", <<>>))

\* shutil.rmtree
Rmtree(f, d) == [p \in {q \in DOMAIN f : ~Under(q, d)} |-> f[p]]

\* sorted(list(dir.glob("*.png"))): the set of png files directly in dir
GlobPng(f, d) == {p \in DOMAIN f : Len(p) = Len(d) + 1 /\ Under(p, d) /\ f[p].by # "mkdir"}

-----------------------------------------------------------------------------
(* The command runner *)

NoFilter == [crop |-> <<>>, scale |-> <<>>, text |-> ""]

\* an ffmpeg command line: argv[0], the -y flag, the -i inputs in order, the
\* filter, the remaining options and the output path or pattern; outs are
\* the files the tool writes when it succeeds, reads the files it needs
Cmd(id, ins, filter, opts, out, outs) ==
    [id |-> id, argv0 |-> "ffmpeg", y |-> TRUE, ins |-> ins,
     filter |-> filter, opts |-> opts, out |-> out, outs |-> outs,
     reads |-> Range(ins)]

\* run_command: True on exit 0, False on CalledProcessError; any other
\* exception (FileNotFoundError on launch) is not caught and propagates
run_command(o) ==
    CASE o = "ok" -> "True"
      [] o = "fail" -> "False"
      [] o = "notfound" -> "raise"

\* check_ffmpeg mutated: subprocess.run without check=True, so a nonzero
\* exit status goes unnoticed
check_ffmpeg_nocheck(o) == o # "notfound"

\* check_ffmpeg: True on exit 0; CalledProcessError and FileNotFoundError
\* are both caught
check_ffmpeg(o) == o = "ok"

\* the tool can succeed only if every file it reads exists
Outcomes(f, cmd) ==
    IF cmd.reads \subseteq DOMAIN f THEN ToolOutcomes
    ELSE ToolOutcomes \ {"ok"}

\* in a re-run with the tool behaving as before, an invocation issued in the
\* previous run ends as it did then
AsBefore(id, o) ==
    (same /\ id \in DOMAIN prev.outcomes) => o = prev.outcomes[id]

\* the filesystem after the tool ran
Tool(f, cmd, o) ==
    IF o = "ok" THEN Put(f, cmd.outs, Content(cmd.id, <<>>)) ELSE f

Call(cmd, o) == [cmd |-> cmd, outcome |-> o, ret |-> run_command(o)]

Msg(t, path, arg) == [t |-> t, path |-> path, arg |-> arg]

\* what run_command prints
RunMsgs(cmd, o) ==
    <<Msg("Running", cmd.out, cmd.id)>> \o
    (CASE o = "ok" -> <<Msg("Success", cmd.out, cmd.id)>>
       [] o = "fail" -> <<Msg("Error", cmd.out, cmd.id)>>
       [] OTHER -> <<>>)

\* one call of run_command(cmd, ...) on filesystem f
Invoke(f, cmd, o) ==
    /\ o \in Outcomes(f, cmd)
    /\ AsBefore(cmd.id, o)
    /\ fs' = Tool(f, cmd, o)
    /\ calls' = Append(calls, Call(cmd, o))

\* the three ways a run ends
Finish(status, by) ==
    /\ pc' = "done"
    /\ exit' = status
    /\ how' = by

\* sys.exit(1)
Abort == Finish(1, "sys.exit")

\* an exception nobody catches: traceback, exit status 1
Crash == Finish(1, "exception")

\* the branch mutated: the "not" of "if not run_command(...)" is missing
OrAbort_inverted(o, next) ==
    CASE run_command(o) = "True" -> Abort
      [] run_command(o) = "False" -> pc' = next /\ UNCHANGED <<exit, how>>
      [] OTHER -> Crash

\* the branch mutated: the result of run_command is ignored
OrAbort_ignored(o, next) ==
    CASE run_command(o) = "raise" -> Crash
      [] OTHER -> pc' = next /\ UNCHANGED <<exit, how>>

\* the branch every driver takes on run_command's result when a failure is
\* fatal: continue at next, or sys.exit(1); an exception propagates
OrAbort(o, next) ==
    CASE run_command(o) = "True" -> pc' = next /\ UNCHANGED <<exit, how>>
      [] run_command(o) = "False" -> Abort
      [] OTHER -> Crash

-----------------------------------------------------------------------------
(* Start of a run *)

NoOutcomes == [id \in {} |-> "ok"]

NoFiles == [p \in {} |-> File("input", <<>>, 0)]

\* nothing is remembered of the previous run unless the tool is to behave
\* as it did then
NoPrev == [exit |-> -1, fs |-> NoFiles, outcomes |-> NoOutcomes, avail |-> "none"]

Init ==
    /\ script \in Scripts
    /\ \E present \in SUBSET Range(Inputs(script)) :
           fs = [p \in present |-> File("input", <<>>, 0)]
    /\ fs0 = fs
    /\ pc = "start"
    /\ idx = 0
    /\ run = 1
    /\ calls = <<>>
    /\ stdout = <<>>
    /\ exit = -1
    /\ how = "running"
    /\ avail = "none"
    /\ normalized_images = <<>>
    /\ video_segments = <<>>
    /\ prev = NoPrev
    /\ same = FALSE

\* main, up to the availability check
CheckFfmpeg ==
    /\ pc = "start"
    /\ \E o \in ToolOutcomes :
        /\ same => o = prev.avail
        /\ avail' = o
        /\ IF check_ffmpeg(o)
           THEN /\ pc' = "validate"
                /\ UNCHANGED <<exit, how, stdout>>
           ELSE /\ stdout' = stdout \o <<Msg("ffmpeg is not installed", <<>>, "")>>
                /\ Abort
    /\ UNCHANGED <<script, fs, fs0, idx, run, calls, normalized_images,
                   video_segments, prev, same>>

\* the existence check mutated: only the first expected file is looked at
Missing_first(s) == {k \in {1} : ~Exists(fs, Inputs(s)[k])}

\* the expected input files (by position) that do not exist
Missing(s) == {k \in 1..Len(Inputs(s)) : ~Exists(fs, Inputs(s)[k])}

\* the choice mutated: the last missing file is reported, not the first
FirstMissing_last(s) == CHOOSE k \in Missing(s) : \A j \in Missing(s) : k >= j

FirstMissing(s) == CHOOSE k \in Missing(s) : \A j \in Missing(s) : k <= j

\* where each script starts once its inputs are validated
Entry(s) ==
    CASE s = "crop_video_horizontal" -> "crop_center"
      [] s = "process_videos_simple" -> "clip"
      [] s = "process_videos_hq_simple" -> "clip"
      [] s = "create_image_gif_simple" -> "mktemp"
      [] s = "create_hq_image_gif" -> "mktemp"
      [] s = "create_image_gif" -> "crossfade"

\* main: the loop over the expected input files
ValidateInputs ==
    /\ pc = "validate"
    /\ IF Missing(script) # {}
       THEN /\ stdout' = stdout \o
                   <<Msg("not found", Inputs(script)[FirstMissing(script)], "")>>
            /\ Abort
            /\ UNCHANGED idx
       ELSE /\ pc' = Entry(script)
            /\ idx' = 1
            /\ UNCHANGED <<exit, how, stdout>>
    /\ UNCHANGED <<script, fs, fs0, run, calls, avail, normalized_images,
                   video_segments, prev, same>>

-----------------------------------------------------------------------------
(* crop_video_horizontal *)

CropFilter(y) ==
    [crop |-> <<crop_size, crop_size, crop_x, y>>,
     scale |-> <<target_width_crop, target_height_crop>>,
     text |-> "crop,scale"]

CropOpts == <<"-c:v", "libx264", "-preset", "fast", "-crf", "23",
              "-c:a", "aac", "-b:a", "128k">>

\* the bottom-crop command mutated: it scales to the source width instead
cmd_bottom_704 ==
    Cmd("cmd_bottom", <<input_video>>,
        [CropFilter(SRC_HEIGHT - crop_size) EXCEPT !.scale = <<crop_size, crop_size>>],
        CropOpts, output_video, {output_video})

\* cmd: crop a square from the center
cmd_center ==
    Cmd("cmd", <<input_video>>, CropFilter((SRC_HEIGHT - crop_size) \div 2),
        CropOpts, output_video, {output_video})

\* cmd_alt: crop from the top
cmd_alt ==
    Cmd("cmd_alt", <<input_video>>, CropFilter(0),
        CropOpts, output_video, {output_video})

\* cmd_bottom: crop from the bottom
cmd_bottom ==
    Cmd("cmd_bottom", <<input_video>>, CropFilter(SRC_HEIGHT - crop_size),
        CropOpts, output_video, {output_video})

\* the branch mutated: a successful invocation also moves on to the fallback
ChainStep_always(cmd, onOk, onFail) ==
    \E o \in ToolOutcomes :
        /\ Invoke(fs, cmd, o)
        /\ stdout' = stdout \o RunMsgs(cmd, o)
        /\ CASE run_command(o) = "raise" -> Crash
             [] OTHER -> pc' = onFail /\ UNCHANGED <<exit, how>>

\* one link of a fallback chain: on success leave the chain, on failure try
\* the next alternative
ChainStep(cmd, onOk, onFail) ==
    \E o \in ToolOutcomes :
        /\ Invoke(fs, cmd, o)
        /\ stdout' = stdout \o RunMsgs(cmd, o)
        /\ CASE run_command(o) = "True" -> pc' = onOk /\ UNCHANGED <<exit, how>>
             [] run_command(o) = "False" -> pc' = onFail /\ UNCHANGED <<exit, how>>
             [] OTHER -> Crash

CropCenter ==
    /\ pc = "crop_center" /\ script = "crop_video_horizontal"
    /\ ChainStep(cmd_center, "report", "crop_top")
    /\ UNCHANGED <<script, fs0, idx, run, avail, normalized_images,
                   video_segments, prev, same>>

CropTop ==
    /\ pc = "crop_top" /\ script = "crop_video_horizontal"
    /\ ChainStep(cmd_alt, "report", "crop_bottom")
    /\ UNCHANGED <<script, fs0, idx, run, avail, normalized_images,
                   video_segments, prev, same>>

CropBottom ==
    /\ pc = "crop_bottom" /\ script = "crop_video_horizontal"
    /\ \E o \in ToolOutcomes :
        /\ Invoke(fs, cmd_bottom, o)
        /\ stdout' = stdout \o RunMsgs(cmd_bottom, o)
        /\ OrAbort(o, "report")
    /\ UNCHANGED <<script, fs0, idx, run, avail, normalized_images,
                   video_segments, prev, same>>

\* Path.stat() succeeds on an existing path and raises FileNotFoundError
\* otherwise
CanStat(f, p) == Exists(f, p)

\* the final messages of main: the success line, the extra lines, the size
\* lines, each of which stats a file and raises if it is gone, and the
\* closing lines
Report(extra, stats, after) ==
    LET firstBad == IF \E k \in 1..Len(stats) : ~CanStat(fs, stats[k])
                    THEN CHOOSE k \in 1..Len(stats) :
                            /\ ~CanStat(fs, stats[k])
                            /\ \A j \in 1..(k - 1) : CanStat(fs, stats[j])
                    ELSE Len(stats) + 1
        sizes == [k \in 1..(firstBad - 1) |-> Msg("file size", stats[k], fs[stats[k]].by)]
    IN  /\ stdout' = stdout \o <<Msg("Successfully created", Output(script), "")>>
                            \o extra \o sizes
                            \o (IF firstBad <= Len(stats) THEN <<>> ELSE after)
        /\ IF firstBad <= Len(stats) THEN Crash ELSE Finish(0, "return")

CropReport ==
    /\ pc = "report" /\ script = "crop_video_horizontal"
    /\ Report(<<Msg("Output dimensions", output_video,
                     <<target_width_crop, target_height_crop>>)>>,
              <<input_video, output_video>>, <<>>)
    /\ UNCHANGED <<script, fs, fs0, idx, run, calls, avail, normalized_images,
                   video_segments, prev, same>>

-----------------------------------------------------------------------------
(* process_videos_simple and process_videos_hq_simple *)

Filter(text) == [crop |-> <<>>, scale |-> <<>>, text |-> text]

aa_processed == <<"aa_processed.mp4">>
bbbb_processed == <<"bbbb_processed.mp4">>
isaac_processed == <<"isaac_processed.mp4">>
screencast_processed == <<"screencast_processed.mp4">>
filelist_path == <<"filelist.txt">>
combined_mp4 == <<"i2g2ro_combined.mp4">>

aa_processed_hq == <<"aa_processed_hq.mp4">>
bbbb_processed_hq == <<"bbbb_processed_hq.mp4">>
screencast_processed_hq == <<"screencast_processed_hq.mp4">>
filelist_path_hq == <<"filelist_hq.txt">>
combined_mp4_hq == <<"i2g2ro_combined_hq.mp4">>

\* process_videos_simple: cmd1..cmd4
ClipCmds_simple ==
    << Cmd("cmd1", <<aa_video>>, Filter("setpts=0.4*PTS"),
           <<"-t", "6", "-c:a", "aac", "-b:a", "128k">>,
           aa_processed, {aa_processed}),
       Cmd("cmd2", <<bbbb_video>>, NoFilter,
           <<"-t", "3", "-c:v", "libx264", "-c:a", "aac">>,
           bbbb_processed, {bbbb_processed}),
       Cmd("cmd3", <<isaac_video>>, Filter("setpts=0.2*PTS"),
           <<"-c:a", "aac", "-b:a", "128k">>,
           isaac_processed, {isaac_processed}),
       Cmd("cmd4", <<screencast_video>>, NoFilter,
           <<"-t", "4", "-c:v", "libx264", "-c:a", "aac">>,
           screencast_processed, {screencast_processed}) >>

HqOpts == <<"-c:v", "libx264", "-preset", "slow", "-crf", "18",
            "-c:a", "aac", "-b:a", "192k">>

\* process_videos_hq_simple: cmd1..cmd3
ClipCmds_hq ==
    << Cmd("cmd1", <<aa_video>>, Filter("setpts=0.4*PTS"),
           <<"-t", "6">> \o HqOpts, aa_processed_hq, {aa_processed_hq}),
       Cmd("cmd2", <<bbbb_video>>, NoFilter,
           <<"-t", "3">> \o HqOpts, bbbb_processed_hq, {bbbb_processed_hq}),
       Cmd("cmd3", <<screencast_video>>, NoFilter,
           <<"-t", "4">> \o HqOpts, screencast_processed_hq,
           {screencast_processed_hq}) >>

ClipCmds(s) == IF s = "process_videos_simple" THEN ClipCmds_simple ELSE ClipCmds_hq

\* the lines mutated: the last clip is not written to the list file
FilelistLines_short(s) == [k \in 1..(Len(ClipCmds(s)) - 1) |-> ClipCmds(s)[k].out]

\* the lines written to the list file: one per processed clip, in order
FilelistLines(s) == [k \in 1..Len(ClipCmds(s)) |-> ClipCmds(s)[k].out]

Filelist(s) == IF s = "process_videos_simple" THEN filelist_path ELSE filelist_path_hq

CombinedMp4(s) == IF s = "process_videos_simple" THEN combined_mp4 ELSE combined_mp4_hq

\* cmd5 of process_videos_simple, cmd4 of process_videos_hq_simple
ConcatCmd(s) ==
    Cmd(IF s = "process_videos_simple" THEN "cmd5" ELSE "cmd4",
        <<Filelist(s)>>, NoFilter, <<"-f", "concat", "-safe", "0", "-c", "copy">>,
        CombinedMp4(s), {CombinedMp4(s)})

\* cmd6 of process_videos_simple, cmd5 of process_videos_hq_simple
GifCmd(s) ==
    Cmd(IF s = "process_videos_simple" THEN "cmd6" ELSE "cmd5",
        <<CombinedMp4(s)>>,
        Filter(IF s = "process_videos_simple" THEN "fps=8,scale=640:-1"
               ELSE "fps=15,scale=800:-1:flags=lanczos"),
        <<"-loop", "0">>, Output(s), {Output(s)})

\* temp_files, in the order the cleanup loop visits them
TempFiles(s) ==
    [k \in 1..Len(ClipCmds(s)) |-> ClipCmds(s)[k].out]
        \o <<CombinedMp4(s), Filelist(s)>>

IsPV == script \in {"process_videos_simple", "process_videos_hq_simple"}

\* one of the per-clip invocations; a failure is fatal
PVClip ==
    /\ pc = "clip" /\ IsPV
    /\ LET cmd == ClipCmds(script)[idx] IN
       \E o \in ToolOutcomes :
        /\ Invoke(fs, cmd, o)
        /\ stdout' = stdout \o RunMsgs(cmd, o)
        /\ OrAbort(o, IF idx < Len(ClipCmds(script)) THEN "clip" ELSE "concat")
        /\ idx' = IF run_command(o) = "True" THEN idx + 1 ELSE idx
    /\ UNCHANGED <<script, fs0, run, avail, normalized_images,
                   video_segments, prev, same>>

\* write the list file, then concatenate
PVConcat ==
    /\ pc = "concat" /\ IsPV
    /\ LET cmd == ConcatCmd(script)
           listed == Put(fs, {Filelist(script)},
                         Content("open", FilelistLines(script)))
       IN \E o \in ToolOutcomes :
            /\ Invoke(listed, cmd, o)
            /\ stdout' = stdout \o RunMsgs(cmd, o)
            /\ OrAbort(o, "to_gif")
    /\ UNCHANGED <<script, fs0, idx, run, avail, normalized_images,
                   video_segments, prev, same>>

\* convert the combined video to the final GIF
PVToGif ==
    /\ pc = "to_gif" /\ IsPV
    /\ LET cmd == GifCmd(script) IN
       \E o \in ToolOutcomes :
        /\ Invoke(fs, cmd, o)
        /\ stdout' = stdout \o RunMsgs(cmd, o)
        /\ OrAbort(o, "cleanup")
    /\ UNCHANGED <<script, fs0, idx, run, avail, normalized_images,
                   video_segments, prev, same>>

\* the cleanup loop: Path.unlink on every temporary file that exists
PVCleanup ==
    /\ pc = "cleanup" /\ IsPV
    /\ LET gone == {p \in Range(TempFiles(script)) : Exists(fs, p)} IN
        /\ fs' = [p \in DOMAIN fs \ gone |-> fs[p]]
        /\ stdout' = stdout \o
              SelectSeq([k \in 1..Len(TempFiles(script)) |->
                            Msg("Removed", TempFiles(script)[k], "")],
                        LAMBDA m : m.path \in gone)
    /\ pc' = "report"
    /\ UNCHANGED <<script, fs0, idx, run, calls, exit, how, avail,
                   normalized_images, video_segments, prev, same>>

PVReport ==
    /\ pc = "report" /\ IsPV
    /\ Report(<<>>, <<Output(script)>>, <<>>)
    /\ UNCHANGED <<script, fs, fs0, idx, run, calls, avail, normalized_images,
                   video_segments, prev, same>>

-----------------------------------------------------------------------------
(* create_image_gif_simple and create_hq_image_gif: the common part *)

NumImages == Len(images)

IsNorm == script \in {"create_image_gif_simple", "create_hq_image_gif"}

temp_dir == TempDir(script)

\* output_path mutated: the normalized image lands next to the inputs
NormalizedPath_flat(s, i) ==
    <<(IF s = "create_hq_image_gif" THEN "hq_" ELSE "normalized_")
        \o Fmt(i, 2) \o ".png">>

\* output_path of the normalization loop
NormalizedPath(s, i) ==
    Join(TempDir(s), (IF s = "create_hq_image_gif" THEN "hq_" ELSE "normalized_")
                        \o Fmt(i, 2) \o ".png")

ScalePad(w, h) == [crop |-> <<>>, scale |-> <<w, h>>, text |-> "scale,pad"]

\* cmd of the normalization loop, for image number i (from 0)
NormalizeCmd(s, i) ==
    IF s = "create_hq_image_gif"
    THEN Cmd("normalize_" \o Fmt(i, 1), << <<images[i + 1]>> >>,
             ScalePad(target_width_hq, target_height_hq), <<"-c:v", "png">>,
             NormalizedPath(s, i), {NormalizedPath(s, i)})
    ELSE Cmd("normalize_" \o Fmt(i, 1), << <<images[i + 1]>> >>,
             ScalePad(target_width_simple, target_height_simple), <<>>,
             NormalizedPath(s, i), {NormalizedPath(s, i)})

\* remove a temporary directory left by an earlier run, then create it
MkTemp ==
    /\ pc = "mktemp" /\ IsNorm
    /\ fs' = Mkdir(IF Exists(fs, temp_dir) THEN Rmtree(fs, temp_dir) ELSE fs,
                   temp_dir)
    /\ idx' = 0
    /\ pc' = "normalize_loop"
    /\ normalized_images' = <<>>
    /\ UNCHANGED <<script, fs0, run, calls, stdout, exit, how, avail,
                   video_segments, prev, same>>

\* one iteration of the normalization loop; a failure is fatal
Normalize ==
    /\ pc = "normalize_loop" /\ IsNorm
    /\ LET cmd == NormalizeCmd(script, idx) IN
       \E o \in ToolOutcomes :
        /\ Invoke(fs, cmd, o)
        /\ stdout' = stdout \o RunMsgs(cmd, o)
        /\ OrAbort(o, IF idx + 1 < NumImages THEN "normalize_loop"
                      ELSE IF script = "create_hq_image_gif" THEN "segment"
                      ELSE "concat_gif")
        /\ IF run_command(o) = "True"
           THEN /\ normalized_images' = Append(normalized_images, cmd.out)
                /\ idx' = IF idx + 1 < NumImages THEN idx + 1 ELSE 0
           ELSE UNCHANGED <<normalized_images, idx>>
    /\ UNCHANGED <<script, fs0, run, avail, video_segments, prev, same>>

\* the cleanup block at the end of main: remove the temporary directory
Cleanup ==
    /\ pc = "cleanup" /\ IsNorm
    /\ IF Exists(fs, temp_dir)
       THEN /\ fs' = Rmtree(fs, temp_dir)
            /\ stdout' = stdout \o <<Msg("Removed temporary directory", temp_dir, "")>>
       ELSE UNCHANGED <<fs, stdout>>
    /\ pc' = "report"
    /\ UNCHANGED <<script, fs0, idx, run, calls, exit, how, avail,
                   normalized_images, video_segments, prev, same>>

\* the final messages of the three image scripts
ImageReport ==
    /\ pc = "report"
    /\ script \in {"create_image_gif_simple", "create_hq_image_gif", "create_image_gif"}
    /\ Report(<<>>, <<Output(script)>>,
              <<Msg("Included", Output(script), Fmt(NumImages, 1))>>)
    /\ UNCHANGED <<script, fs, fs0, idx, run, calls, avail, normalized_images,
                   video_segments, prev, same>>

-----------------------------------------------------------------------------
(* create_hq_image_gif *)

IsHq == script = "create_hq_image_gif"

SegmentPath(i) == Join(TempDir("create_hq_image_gif"), "segment_" \o Fmt(i, 2) \o ".mp4")

hq_filelist_path == Join(TempDir("create_hq_image_gif"), "filelist.txt")
combined_video == Join(TempDir("create_hq_image_gif"), "combined.mp4")
palette_path == Join(TempDir("create_hq_image_gif"), "palette.png")

\* cmd of the segment loop, for normalized image number i (from 0)
SegmentCmd(i, img) ==
    Cmd("segment_" \o Fmt(i, 1), <<img>>, Filter("fps=12"),
        <<"-loop", "1", "-t", "4", "-c:v", "libx264", "-preset", "slow",
          "-crf", "18", "-pix_fmt", "yuv420p">>,
        SegmentPath(i), {SegmentPath(i)})

hq_concat_cmd ==
    Cmd("concat", <<hq_filelist_path>>, NoFilter,
        <<"-f", "concat", "-safe", "0", "-c", "copy">>,
        combined_video, {combined_video})

cmd_palette ==
    Cmd("cmd_palette", <<combined_video>>,
        [crop |-> <<>>, scale |-> <<1200, 900>>, text |-> "fps=12,scale,palettegen"],
        <<>>, palette_path, {palette_path})

hq_cmd_gif ==
    Cmd("cmd_gif", <<combined_video, palette_path>>,
        [crop |-> <<>>, scale |-> <<1200, 900>>, text |-> "fps=12,scale,paletteuse"],
        <<"-loop", "0">>, Output("create_hq_image_gif"),
        {Output("create_hq_image_gif")})

cmd_simple_hq ==
    Cmd("cmd_simple", <<combined_video>>,
        [crop |-> <<>>, scale |-> <<1200, 900>>, text |-> "fps=12,scale"],
        <<"-loop", "0">>, Output("create_hq_image_gif"),
        {Output("create_hq_image_gif")})

\* one iteration of the segment loop; a failure is fatal
HqSegment ==
    /\ pc = "segment" /\ IsHq
    /\ LET cmd == SegmentCmd(idx, normalized_images[idx + 1]) IN
       \E o \in ToolOutcomes :
        /\ Invoke(fs, cmd, o)
        /\ stdout' = stdout \o RunMsgs(cmd, o)
        /\ OrAbort(o, IF idx + 1 < Len(normalized_images) THEN "segment"
                      ELSE "hq_concat")
        /\ IF run_command(o) = "True"
           THEN /\ video_segments' = Append(video_segments, cmd.out)
                /\ idx' = IF idx + 1 < Len(normalized_images) THEN idx + 1 ELSE 0
           ELSE UNCHANGED <<video_segments, idx>>
    /\ UNCHANGED <<script, fs0, run, avail, normalized_images, prev, same>>

\* write the list file, then concatenate the segments
HqConcat ==
    /\ pc = "hq_concat" /\ IsHq
    /\ LET listed == Put(fs, {hq_filelist_path}, Content("open", video_segments))
       IN \E o \in ToolOutcomes :
            /\ Invoke(listed, hq_concat_cmd, o)
            /\ stdout' = stdout \o RunMsgs(hq_concat_cmd, o)
            /\ OrAbort(o, "palette")
    /\ UNCHANGED <<script, fs0, idx, run, avail, normalized_images,
                   video_segments, prev, same>>

HqPalette ==
    /\ pc = "palette" /\ IsHq
    /\ \E o \in ToolOutcomes :
        /\ Invoke(fs, cmd_palette, o)
        /\ stdout' = stdout \o RunMsgs(cmd_palette, o)
        /\ OrAbort(o, "gif_palette")
    /\ UNCHANGED <<script, fs0, idx, run, avail, normalized_images,
                   video_segments, prev, same>>

\* the GIF with the palette; on failure fall back to the simple GIF
HqGifPalette ==
    /\ pc = "gif_palette" /\ IsHq
    /\ ChainStep(hq_cmd_gif, "cleanup", "gif_simple")
    /\ UNCHANGED <<script, fs0, idx, run, avail, normalized_images,
                   video_segments, prev, same>>

HqGifSimple ==
    /\ pc = "gif_simple" /\ IsHq
    /\ \E o \in ToolOutcomes :
        /\ Invoke(fs, cmd_simple_hq, o)
        /\ stdout' = stdout \o RunMsgs(cmd_simple_hq, o)
        /\ OrAbort(o, "cleanup")
    /\ UNCHANGED <<script, fs0, idx, run, avail, normalized_images,
                   video_segments, prev, same>>

-----------------------------------------------------------------------------
(* The frame-based fallback of create_image_gif_simple and create_image_gif *)

\* the file ffmpeg writes for frame n of image i under the pattern
\* frame_{i:0wd}_%03d.png
FramePath(dir, i, w, n) ==
    Join(dir, "frame_" \o Fmt(i, w) \o "_" \o Fmt(n, 3) \o ".png")

FrameFiles(dir, i, w) == {FramePath(dir, i, w, n) : n \in 1..FramesPerImage}

\* every frame file name in sorted order (zero-padded numbers sort as numbers)
FrameOrder(dir, w) ==
    [k \in 1..(NumImages * FramesPerImage) |->
        FramePath(dir, (k - 1) \div FramesPerImage, w,
                  ((k - 1) % FramesPerImage) + 1)]

\* sorted(list(dir.glob("*.png")))
all_frames(f, dir, w) ==
    SelectSeq(FrameOrder(dir, w), LAMBDA p : p \in GlobPng(f, dir))

\* a command whose input is a pattern or list standing for the files rd
Reading(cmd, rd) == [cmd EXCEPT !.reads = rd]

-----------------------------------------------------------------------------
(* create_image_gif_simple *)

IsSimple == script = "create_image_gif_simple"

frame_dir == Join(TempDir("create_image_gif_simple"), "frames")
pattern_file == Join(TempDir("create_image_gif_simple"), "pattern.txt")

\* cmd: concatenate the six normalized images into the GIF
simple_concat_cmd ==
    Cmd("cmd", normalized_images, Filter("concat=n=6:v=1:a=0"),
        <<"-map", "[v]", "-r", "8", "-loop", "0">>,
        Output("create_image_gif_simple"), {Output("create_image_gif_simple")})

\* cmd_frames for normalized image number i (from 0)
simple_cmd_frames(i, img) ==
    Cmd("cmd_frames_" \o Fmt(i, 1), <<img>>, Filter("fps=8"),
        <<"-loop", "1", "-t", "3">>,
        Join(frame_dir, "frame_" \o Fmt(i, 2) \o "_%03d.png"),
        FrameFiles(frame_dir, i, 2))

\* cmd_gif: the GIF from the pattern file
simple_cmd_gif ==
    Cmd("cmd_gif", <<pattern_file>>, NoFilter,
        <<"-f", "concat", "-safe", "0", "-loop", "0">>,
        Output("create_image_gif_simple"), {Output("create_image_gif_simple")})

\* the primary invocation; on failure fall back to the frame approach
SimpleConcat ==
    /\ pc = "concat_gif" /\ IsSimple
    /\ ChainStep(simple_concat_cmd, "cleanup", "frames")
    /\ idx' = 0
    /\ UNCHANGED <<script, fs0, run, avail, normalized_images,
                   video_segments, prev, same>>

\* one iteration of the frame loop (before the first, frame_dir is created);
\* a failed invocation is skipped with continue
SimpleFrames ==
    /\ pc = "frames" /\ IsSimple
    /\ LET cmd == simple_cmd_frames(idx, normalized_images[idx + 1])
           f == IF idx = 0 THEN Mkdir(fs, frame_dir) ELSE fs
       IN \E o \in ToolOutcomes :
            /\ Invoke(f, cmd, o)
            /\ stdout' = stdout \o RunMsgs(cmd, o)
            /\ IF run_command(o) = "raise"
               THEN Crash /\ UNCHANGED idx
               ELSE /\ pc' = IF idx + 1 < Len(normalized_images)
                             THEN "frames" ELSE "frames_gif"
                    /\ idx' = IF idx + 1 < Len(normalized_images) THEN idx + 1 ELSE 0
                    /\ UNCHANGED <<exit, how>>
    /\ UNCHANGED <<script, fs0, run, avail, normalized_images,
                   video_segments, prev, same>>

\* glob the frames; if there are any, write the pattern file and build the
\* GIF from it (a failure is fatal); if there are none, go on to the cleanup
SimpleFramesGif ==
    /\ pc = "frames_gif" /\ IsSimple
    /\ IF GlobPng(fs, frame_dir) # {}
       THEN LET listed == Put(fs, {pattern_file},
                              Content("open", all_frames(fs, frame_dir, 2)))
            IN \E o \in ToolOutcomes :
                /\ Invoke(listed, simple_cmd_gif, o)
                /\ stdout' = stdout \o RunMsgs(simple_cmd_gif, o)
                /\ OrAbort(o, "cleanup")
       ELSE /\ pc' = "cleanup"
            /\ UNCHANGED <<fs, calls, stdout, exit, how>>
    /\ UNCHANGED <<script, fs0, idx, run, avail, normalized_images,
                   video_segments, prev, same>>

-----------------------------------------------------------------------------
(* create_image_gif *)

IsGif == script = "create_image_gif"

temp_frames == TempDir("create_image_gif")

\* input_list: every image, each with -loop 1 -t 3
input_list == [k \in 1..NumImages |-> <<images[k]>>]

\* filter_parts: the crossfade from image 0 to 1, then from each
\* intermediate label [v{i}] and input i+1 to [v{i+1}]
filter_parts ==
    [k \in 1..(NumImages - 1) |->
        LET i == k - 1 IN
        IF i = 0
        THEN "[0:v][1:v]xfade[v" \o Fmt(i + 1, 1) \o "]"
        ELSE "[v" \o Fmt(i, 1) \o "][" \o Fmt(i + 1, 1) \o ":v]xfade[v"
                \o Fmt(i + 1, 1) \o "]"]

RECURSIVE JoinStr(_, _)
JoinStr(sep, parts) ==
    IF Len(parts) = 0 THEN ""
    ELSE IF Len(parts) = 1 THEN parts[1]
    ELSE parts[1] \o sep \o JoinStr(sep, Tail(parts))

\* cmd: the GIF with crossfade transitions
crossfade_cmd ==
    Cmd("cmd", input_list, Filter(JoinStr(";", filter_parts)),
        <<"-map", "[v" \o Fmt(NumImages - 1, 1) \o "]", "-r", "15", "-loop", "0">>,
        Output("create_image_gif"), {Output("create_image_gif")})

\* cmd_simple: plain concatenation
gif_cmd_simple ==
    Cmd("cmd_simple", input_list, Filter("concat=n=6:v=1:a=0"),
        <<"-map", "[v]", "-r", "10", "-loop", "0">>,
        Output("create_image_gif"), {Output("create_image_gif")})

\* cmd_frames for image number i (from 0)
gif_cmd_frames(i) ==
    Cmd("cmd_frames_" \o Fmt(i, 1), << <<images[i + 1]>> >>, Filter("fps=10"),
        <<"-loop", "1", "-t", "3">>,
        Join(temp_frames, "frame_" \o Fmt(i, 3) \o "_%03d.png"),
        FrameFiles(temp_frames, i, 3))

\* cmd_gif: the GIF from the frames in temp_frames found by the glob
gif_cmd_gif(frames) ==
    Reading(Cmd("cmd_gif", <<Join(temp_frames, "frame_%03d_%03d.png")>>, NoFilter,
                <<"-framerate", "10", "-loop", "0">>,
                Output("create_image_gif"), {Output("create_image_gif")}),
            frames)

GifCrossfade ==
    /\ pc = "crossfade" /\ IsGif
    /\ ChainStep(crossfade_cmd, "report", "simple_concat")
    /\ UNCHANGED <<script, fs0, idx, run, avail, normalized_images,
                   video_segments, prev, same>>

GifSimpleConcat ==
    /\ pc = "simple_concat" /\ IsGif
    /\ ChainStep(gif_cmd_simple, "report", "frames")
    /\ idx' = 0
    /\ UNCHANGED <<script, fs0, run, avail, normalized_images,
                   video_segments, prev, same>>

\* one iteration of the frame loop (before the first, temp_frames is created
\* unless it exists); a failed invocation is skipped with continue
GifFrames ==
    /\ pc = "frames" /\ IsGif
    /\ LET cmd == gif_cmd_frames(idx)
           f == IF idx = 0 /\ ~Exists(fs, temp_frames)
                THEN Mkdir(fs, temp_frames) ELSE fs
       IN \E o \in ToolOutcomes :
            /\ Invoke(f, cmd, o)
            /\ stdout' = stdout \o RunMsgs(cmd, o)
            /\ IF run_command(o) = "raise"
               THEN Crash /\ UNCHANGED idx
               ELSE /\ pc' = IF idx + 1 < NumImages THEN "frames" ELSE "frames_gif"
                    /\ idx' = IF idx + 1 < NumImages THEN idx + 1 ELSE 0
                    /\ UNCHANGED <<exit, how>>
    /\ UNCHANGED <<script, fs0, run, avail, normalized_images,
                   video_segments, prev, same>>

\* glob the frames; if there are any, build the GIF from them (a failure is
\* fatal); if there are none, go on to the cleanup
GifFramesGif ==
    /\ pc = "frames_gif" /\ IsGif
    /\ IF GlobPng(fs, temp_frames) # {}
       THEN LET cmd == gif_cmd_gif(GlobPng(fs, temp_frames))
            IN \E o \in ToolOutcomes :
                /\ Invoke(fs, cmd, o)
                /\ stdout' = stdout \o RunMsgs(cmd, o)
                /\ OrAbort(o, "rm_frames")
       ELSE /\ pc' = "rm_frames"
            /\ UNCHANGED <<fs, calls, stdout, exit, how>>
    /\ UNCHANGED <<script, fs0, idx, run, avail, normalized_images,
                   video_segments, prev, same>>

\* the cleanup at the end of the frame fallback
GifCleanup ==
    /\ pc = "rm_frames" /\ IsGif
    /\ IF Exists(fs, temp_frames)
       THEN /\ fs' = Rmtree(fs, temp_frames)
            /\ stdout' = stdout \o <<Msg("Cleaned up temporary frames", temp_frames, "")>>
       ELSE UNCHANGED <<fs, stdout>>
    /\ pc' = "report"
    /\ UNCHANGED <<script, fs0, idx, run, calls, exit, how, avail,
                   normalized_images, video_segments, prev, same>>

-----------------------------------------------------------------------------
(* Running the script again *)

OutcomesOf(cs) ==
    [id \in {cs[k].cmd.id : k \in 1..Len(cs)} |->
        (CHOOSE c \in Range(cs) : c.cmd.id = id).outcome]

\* the operator starts the same script again in the directory as the last
\* run left it; with sameTool the tool behaves as it did in that run
Rerun ==
    /\ pc = "done"
    /\ run < MaxRuns
    /\ \E sameTool \in BOOLEAN :
        /\ same' = sameTool
        /\ prev' = IF sameTool
                   THEN [exit |-> exit, fs |-> fs, outcomes |-> OutcomesOf(calls),
                         avail |-> avail]
                   ELSE NoPrev
    /\ run' = run + 1
    /\ fs0' = fs
    /\ pc' = "start"
    /\ idx' = 0
    /\ calls' = <<>>
    /\ stdout' = <<>>
    /\ exit' = -1
    /\ how' = "running"
    /\ avail' = "none"
    /\ normalized_images' = <<>>
    /\ video_segments' = <<>>
    /\ UNCHANGED <<script, fs>>

Next ==
    \/ CheckFfmpeg
    \/ ValidateInputs
    \/ CropCenter
    \/ CropTop
    \/ CropBottom
    \/ CropReport
    \/ PVClip
    \/ PVConcat
    \/ PVToGif
    \/ PVCleanup
    \/ PVReport
    \/ MkTemp
    \/ Normalize
    \/ Cleanup
    \/ ImageReport
    \/ HqSegment
    \/ HqConcat
    \/ HqPalette
    \/ HqGifPalette
    \/ HqGifSimple
    \/ SimpleConcat
    \/ SimpleFrames
    \/ SimpleFramesGif
    \/ GifCrossfade
    \/ GifSimpleConcat
    \/ GifFrames
    \/ GifFramesGif
    \/ GifCleanup
    \/ Rerun

Spec == Init /\ [][Next]_vars

-----------------------------------------------------------------------------
(* Properties *)

Done == pc = "done"

\* the outcome of the invocation with this id in the current run
Result(id) ==
    IF \E k \in 1..Len(calls) : calls[k].cmd.id = id
    THEN (CHOOSE c \in Range(calls) : c.cmd.id = id).outcome
    ELSE "none"

Printed(t) == \E k \in 1..Len(stdout) : stdout[k].t = t

\* some file the script declares as input is not there
InputAbsent ==
    \E k \in 1..Len(Inputs(script)) : Inputs(script)[k] \notin DOMAIN fs

\* the final artifact exists and was written in the current run
Produced == Exists(fs, Output(script)) /\ fs[Output(script)].at = run

\* the scripts with a fallback chain and the invocations of each chain, in
\* order; in the two frame-based fallbacks the last link is the frame
\* approach, whose final invocation is cmd_gif
HasChain == script \in {"crop_video_horizontal", "create_hq_image_gif",
                        "create_image_gif", "create_image_gif_simple"}

Chain(s) ==
    CASE s = "crop_video_horizontal" -> <<"cmd", "cmd_alt", "cmd_bottom">>
      [] s = "create_hq_image_gif" -> <<"cmd_gif", "cmd_simple">>
      [] s = "create_image_gif" -> <<"cmd", "cmd_simple", "cmd_gif">>
      [] s = "create_image_gif_simple" -> <<"cmd", "cmd_gif">>
      [] OTHER -> <<>>

FrameIds == {"cmd_frames_" \o Fmt(i, 1) : i \in 0..(NumImages - 1)}

ChainIds(s) ==
    Range(Chain(s)) \cup
    (IF s \in {"create_image_gif", "create_image_gif_simple"} THEN FrameIds ELSE {})

\* invocations 1..k-1 of the chain failed and invocation k succeeded
LastLinkSucceeded ==
    /\ HasChain
    /\ \A j \in 1..(Len(Chain(script)) - 1) : Result(Chain(script)[j]) = "fail"
    /\ Result(Chain(script)[Len(Chain(script))]) = "ok"

\* the chain was entered and none of its invocations succeeded
ChainAllFailed ==
    /\ HasChain
    /\ Result(Chain(script)[1]) # "none"
    /\ \A k \in 1..Len(calls) :
          calls[k].cmd.id \in ChainIds(script) => calls[k].outcome # "ok"

\* C1: when the availability check fails (nonzero exit or tool not found),
\* the script ends with a nonzero status, has issued no invocation and has
\* left the filesystem exactly as it found it.
C1_NoWriteWhenToolUnavailable ==
    (Done /\ avail \in {"fail", "notfound"}) =>
        /\ exit # 0
        /\ calls = <<>>
        /\ fs = fs0

C1_Witness ==
    Done /\ avail = "fail" /\ run = 2 /\ DOMAIN fs # {}

\* C2 as stated: when an expected input file is absent, the script ends with
\* a nonzero status and the external tool has not been invoked at all.
C2_NoToolBeforeMissingInputExit ==
    (Done /\ InputAbsent) =>
        /\ exit # 0
        /\ avail = "none"
        /\ calls = <<>>

\* C2 amended: when an expected input file is absent, the script ends with
\* a nonzero status and no processing invocation has been issued; the only
\* invocation of the tool is the availability check.
C2_NoProcessingBeforeMissingInputExit ==
    (Done /\ InputAbsent) =>
        /\ exit # 0
        /\ calls = <<>>

C2_Witness ==
    /\ Done /\ avail = "ok"
    /\ InputAbsent /\ Exists(fs, Inputs(script)[1])
    /\ Printed("not found")

\* C3: in a script with a fallback chain of length k, when invocations
\* 1..k-1 fail and invocation k succeeds, the run prints the final success
\* message, exits 0, and the final artifact exists, written in this run.
C3_LastFallbackSucceeds ==
    (Done /\ LastLinkSucceeded) =>
        /\ exit = 0
        /\ Printed("Successfully created")
        /\ Produced

C3_Witness ==
    Done /\ LastLinkSucceeded /\ script = "create_image_gif" /\ exit = 0

\* C4: in a script with a fallback chain, when every invocation of the
\* chain fails, the run exits nonzero and produces no final artifact,
\* whether or not an output of an earlier run is there.
C4_ChainExhaustedExitsNonzero ==
    (Done /\ ChainAllFailed) =>
        /\ exit # 0
        /\ ~Produced

\* every required step succeeded: the tool was available, the inputs were
\* there, no invocation raised, and an invocation that succeeded in this
\* run wrote the final artifact
FullSuccess ==
    /\ avail = "ok"
    /\ ~InputAbsent
    /\ \E k \in 1..Len(calls) :
          calls[k].outcome = "ok" /\ Output(script) \in calls[k].cmd.outs
    /\ \A k \in 1..Len(calls) : calls[k].ret # "raise"

\* C5: a finished run has exit status 0 exactly when every required step
\* succeeded, otherwise status 1 reached through sys.exit(1); no run ends
\* through an uncaught exception.
C5_ExitStatusReflectsSuccess ==
    Done =>
        /\ how # "exception"
        /\ (exit = 0) <=> FullSuccess
        /\ exit # 0 => (exit = 1 /\ how = "sys.exit")

\* C6: whenever the external process exits nonzero or cannot be launched,
\* run_command returns False and does not raise.
C6_RunCommandNeverRaises ==
    \A k \in 1..Len(calls) :
        calls[k].outcome # "ok" => calls[k].ret = "False"

\* the temporary artifacts of a script
IsTemp(s, p) ==
    \/ TempDir(s) # <<>> /\ Under(p, TempDir(s))
    \/ s \in {"process_videos_simple", "process_videos_hq_simple"}
          /\ p \in Range(TempFiles(s))

\* C7: when a run has ended, in success or in failure, nothing temporary
\* that the run created is left.
C7_NoTempLeftAtExit ==
    Done => \A p \in DOMAIN fs : IsTemp(script, p) => fs[p].at # run

\* C8: every invocation carries -y; a successful run leaves the inputs, the
\* final output and nothing else; and a second run from the state a
\* successful run left, with the tool behaving the same, succeeds again and
\* ends in the same filesystem state.
C8_SuccessfulRunIdempotent ==
    /\ \A k \in 1..Len(calls) : calls[k].cmd.y
    /\ (Done /\ exit = 0) =>
          DOMAIN fs = Range(Inputs(script)) \cup {Output(script)}
    /\ (Done /\ same /\ prev.exit = 0) =>
          (exit = 0 /\ Strip(fs) = Strip(prev.fs))

AllSucceeded ==
    /\ avail = "ok"
    /\ ~InputAbsent
    /\ \A k \in 1..Len(calls) : calls[k].outcome = "ok"

\* C9: in create_image_gif_simple and create_hq_image_gif, when all six
\* images exist and every invocation succeeds, the temporary directory is
\* gone before the final message is printed, and the finished run has
\* written exactly one file that remains, the output at the hardcoded path,
\* and has printed the success line naming that path and a size line
\* obtained from the file at that path.
C9_NormalizeAndCombine ==
    (IsNorm /\ AllSucceeded) =>
        /\ (pc = "report" \/ Printed("Successfully created")) =>
              \A p \in DOMAIN fs : ~Under(p, temp_dir)
        /\ Done =>
              /\ exit = 0
              /\ Exists(fs, Output(script))
              /\ \A p \in DOMAIN fs :
                    (p \notin DOMAIN fs0 \/ fs[p] # fs0[p]) => p = Output(script)
              /\ \E k \in 1..(Len(stdout) - 1) :
                    /\ stdout[k].t = "Successfully created"
                    /\ stdout[k].path = Output(script)
                    /\ stdout[k + 1].t = "file size"
                    /\ stdout[k + 1].path = Output(script)
                    /\ stdout[k + 1].arg = fs[Output(script)].by

C9_Witness ==
    /\ IsNorm /\ AllSucceeded /\ Done /\ run = 2
    /\ Len(calls) > NumImages
    /\ Exists(fs0, Output(script))

CropYs == <<288, 0, 576>>

\* C10: in the crop script every invocation issued is the same command but
\* for crop_y, which is 288, 0, 576 in that order, and requests the scale
\* 1280x720; when the run succeeds the last invocation is the one that
\* succeeded and the final message reports 1280x720.
C10_CropTargetDimensions ==
    script = "crop_video_horizontal" =>
        /\ \A k \in 1..Len(calls) :
              /\ calls[k].cmd.filter.scale = <<1280, 720>>
              /\ calls[k].cmd.filter.crop[4] = CropYs[k]
              /\ [calls[k].cmd EXCEPT !.id = "", !.filter.crop[4] = 0]
                    = [calls[1].cmd EXCEPT !.id = "", !.filter.crop[4] = 0]
        /\ (Done /\ exit = 0) =>
              /\ calls[Len(calls)].outcome = "ok"
              /\ \A k \in 1..(Len(calls) - 1) : calls[k].outcome = "fail"
              /\ \E k \in 1..Len(stdout) :
                    /\ stdout[k].t = "Output dimensions"
                    /\ stdout[k].arg = <<1280, 720>>

C10_Witness ==
    /\ script = "crop_video_horizontal" /\ Done /\ exit = 0
    /\ Len(calls) = 3

\* the fallback the driver defines for an invocation ("" if it has none);
\* the fallback of the last plain invocation of the two image-GIF scripts is
\* the frame approach, which starts with cmd_frames for image 0
Fallback(s, id) ==
    CASE s = "crop_video_horizontal" /\ id = "cmd" -> "cmd_alt"
      [] s = "crop_video_horizontal" /\ id = "cmd_alt" -> "cmd_bottom"
      [] s = "create_hq_image_gif" /\ id = "cmd_gif" -> "cmd_simple"
      [] s = "create_image_gif" /\ id = "cmd" -> "cmd_simple"
      [] s = "create_image_gif" /\ id = "cmd_simple" -> "cmd_frames_0"
      [] s = "create_image_gif_simple" /\ id = "cmd" -> "cmd_frames_0"
      [] OTHER -> ""

\* the failed invocation number k ended the run with status 1
FatalAt(k) == k = Len(calls) /\ Done /\ exit = 1

\* the failed invocation number k has a fallback, and that is what is
\* issued next (or the run is still on its way to it)
FallbackNextAt(k) ==
    /\ Fallback(script, calls[k].cmd.id) # ""
    /\ IF k < Len(calls)
       THEN calls[k + 1].cmd.id = Fallback(script, calls[k].cmd.id)
       ELSE ~Done

\* the failed invocation number k is a per-image frame invocation that
\* exited nonzero
FrameSkippedAt(k) ==
    /\ calls[k].cmd.id \in FrameIds
    /\ calls[k].outcome = "fail"

\* C11 as stated: every failed processing invocation is either followed by
\* its not yet attempted fallback or ends the run with status 1 and no
\* further invocation; none is skipped with the run continuing.
C11_FailureIsFallbackOrFatal ==
    \A k \in 1..Len(calls) :
        calls[k].outcome # "ok" => (FallbackNextAt(k) \/ FatalAt(k))

\* C11 amended: the same, except for the per-image frame invocations
\* (cmd_frames) of create_image_gif and create_image_gif_simple: one that
\* exits nonzero is skipped and the run continues.
C11_FailureIsFallbackOrFatalOrFrame ==
    \A k \in 1..Len(calls) :
        calls[k].outcome # "ok" =>
            (FallbackNextAt(k) \/ FatalAt(k) \/ FrameSkippedAt(k))

C11_Witness ==
    /\ script = "create_hq_image_gif"
    /\ Len(calls) >= 2
    /\ calls[Len(calls) - 1].cmd.id = "cmd_gif"
    /\ calls[Len(calls) - 1].outcome = "fail"
    /\ calls[Len(calls)].outcome = "fail"
    /\ Done

\* the last line printed names an expected input file that is not there
NamesMissingFile ==
    /\ Len(stdout) > 0
    /\ stdout[Len(stdout)].t = "not found"
    /\ stdout[Len(stdout)].path \in Range(Inputs(script))
    /\ stdout[Len(stdout)].path \notin DOMAIN fs

\* C12 as stated: when at least one expected input file is missing, the run
\* ends with a nonzero status naming a missing file, has issued no
\* processing invocation and has left the filesystem as it found it.
C12_MissingInputAllOrNothing ==
    (Done /\ InputAbsent) =>
        /\ exit # 0
        /\ NamesMissingFile
        /\ calls = <<>>
        /\ fs = fs0

\* C12 amended: when at least one expected input file is missing, the run
\* ends with a nonzero status, has issued no processing invocation and has
\* left the filesystem as it found it; it names a missing file if the
\* availability check passed, and otherwise ends at the availability check
\* without looking at the input files.
C12_MissingInputAllOrNothingAfterCheck ==
    (Done /\ InputAbsent) =>
        /\ exit # 0
        /\ calls = <<>>
        /\ fs = fs0
        /\ avail = "ok" =>
              /\ NamesMissingFile
              /\ \E k \in 1..Len(Inputs(script)) :
                    /\ stdout[Len(stdout)].path = Inputs(script)[k]
                    /\ \A j \in 1..(k - 1) : Exists(fs, Inputs(script)[j])
        /\ avail # "ok" => ~Printed("not found")

C12_Witness ==
    /\ Done /\ avail = "ok" /\ InputAbsent
    /\ script = "process_videos_hq_simple"
    /\ Exists(fs, aa_video) /\ ~Exists(fs, bbbb_video) /\ ~Exists(fs, screencast_video)
    /\ NamesMissingFile

\* the files the newest invocation reads, other than the script's inputs
IntermediatesRead(cs) ==
    {p \in cs[Len(cs)].cmd.reads : p \notin Range(Inputs(script))}

\* C13: invocations are issued one at a time, and whenever an invocation is
\* issued, every intermediate file it reads exists and was produced in the
\* same run (by a successful invocation or by the script's own write); none
\* is missing or left over from an earlier or failed step.
C13_ReadsWhatThisRunProduced ==
    [][Len(calls') = Len(calls) + 1 =>
          \A p \in IntermediatesRead(calls') :
              p \in DOMAIN fs' /\ fs'[p].at = run]_vars

\* the concat invocation of the three scripts that write a list file, the
\* list file each reads, and the entries it is to hold
ConcatId ==
    CASE script = "process_videos_simple" -> "cmd5"
      [] script = "process_videos_hq_simple" -> "cmd4"
      [] script = "create_hq_image_gif" -> "concat"
      [] OTHER -> "none"

ListFile ==
    CASE script = "process_videos_simple" -> <<"filelist.txt">>
      [] script = "process_videos_hq_simple" -> <<"filelist_hq.txt">>
      [] OTHER -> <<"temp_hq", "filelist.txt">>

ExpectedList ==
    CASE script = "process_videos_simple" ->
            << <<"aa_processed.mp4">>, <<"bbbb_processed.mp4">>,
               <<"isaac_processed.mp4">>, <<"screencast_processed.mp4">> >>
      [] script = "process_videos_hq_simple" ->
            << <<"aa_processed_hq.mp4">>, <<"bbbb_processed_hq.mp4">>,
               <<"screencast_processed_hq.mp4">> >>
      [] OTHER ->
            << <<"temp_hq", "segment_00.mp4">>, <<"temp_hq", "segment_01.mp4">>,
               <<"temp_hq", "segment_02.mp4">>, <<"temp_hq", "segment_03.mp4">>,
               <<"temp_hq", "segment_04.mp4">>, <<"temp_hq", "segment_05.mp4">> >>

ConcatJustIssued ==
    /\ Len(calls) > 0
    /\ calls[Len(calls)].cmd.id = ConcatId

\* C14: when the concat invocation has just been issued, the list file
\* exists, was written in this run, and holds exactly one entry per clip or
\* segment in processing order; every entry names a file that exists and
\* was written in this run by an invocation that succeeded.
C14_ListFileAtConcat ==
    ConcatJustIssued =>
        /\ calls[Len(calls)].cmd.ins = <<ListFile>>
        /\ Exists(fs, ListFile)
        /\ fs[ListFile].at = run
        /\ fs[ListFile].data = ExpectedList
        /\ \A j \in 1..Len(ExpectedList) :
              /\ Exists(fs, ExpectedList[j])
              /\ fs[ExpectedList[j]].at = run
              /\ \E k \in 1..(Len(calls) - 1) :
                    /\ calls[k].outcome = "ok"
                    /\ calls[k].cmd.id = fs[ExpectedList[j]].by
                    /\ ExpectedList[j] \in calls[k].cmd.outs

C14_Witness ==
    /\ ConcatJustIssued
    /\ script = "create_hq_image_gif"
    /\ calls[Len(calls)].outcome = "ok"
    /\ run = 2

\* the steps of a run: every action but the start of another run
RunStep ==
    \/ CheckFfmpeg
    \/ ValidateInputs
    \/ CropCenter
    \/ CropTop
    \/ CropBottom
    \/ CropReport
    \/ PVClip
    \/ PVConcat
    \/ PVToGif
    \/ PVCleanup
    \/ PVReport
    \/ MkTemp
    \/ Normalize
    \/ Cleanup
    \/ ImageReport
    \/ HqSegment
    \/ HqConcat
    \/ HqPalette
    \/ HqGifPalette
    \/ HqGifSimple
    \/ SimpleConcat
    \/ SimpleFrames
    \/ SimpleFramesGif
    \/ GifCrossfade
    \/ GifSimpleConcat
    \/ GifFrames
    \/ GifFramesGif
    \/ GifCleanup

\* a started script keeps executing: the interpreter takes the next step
\* whenever there is one, each external invocation having returned
FairSpec == Spec /\ WF_vars(RunStep)

\* the position of an invocation in the fallback chain of its script (the
\* per-image frame invocations and cmd_gif form one alternative), 0 outside
\* the chain
Link(s, id) ==
    IF id \in FrameIds /\ s \in {"create_image_gif", "create_image_gif_simple"}
    THEN Len(Chain(s))
    ELSE IF \E m \in 1..Len(Chain(s)) : Chain(s)[m] = id
         THEN CHOOSE m \in 1..Len(Chain(s)) : Chain(s)[m] = id
         ELSE 0

\* no invocation is issued twice in a run
NoRepeat ==
    \A j, k \in 1..Len(calls) :
        j # k => calls[j].cmd.id # calls[k].cmd.id /\ calls[j].cmd # calls[k].cmd

\* an alternative of a chain is issued only after every earlier alternative
\* was issued and failed
AlternativesOnlyAfterFailure ==
    \A k \in 1..Len(calls) :
        \A m \in 1..(Link(script, calls[k].cmd.id) - 1) :
            /\ \E j \in 1..(k - 1) : calls[j].cmd.id = Chain(script)[m]
            /\ \A j \in 1..(k - 1) :
                  Link(script, calls[j].cmd.id) = m => calls[j].outcome = "fail"

\* C15: every run terminates; no invocation is issued more than once in a
\* run; an alternative invocation of a fallback chain is issued only if every
\* earlier invocation of the chain failed, so after a success in the chain no
\* later alternative is attempted.
C15_BoundedNonRepeatingFallback ==
    /\ [](NoRepeat /\ AlternativesOnlyAfterFailure)
    /\ (pc # "done") ~> (pc = "done")

\* the last alternative of the three-link chain in a second run that ended
C15_Witness ==
    /\ Done /\ run = 2
    /\ script = "create_image_gif"
    /\ Result("cmd") = "fail" /\ Result("cmd_simple") = "fail"
    /\ Result("cmd_frames_0") = "ok" /\ Result("cmd_gif") = "ok"

\* an invocation that writes the final output path returned success in this
\* run
OutputWritten ==
    \E k \in 1..Len(calls) :
        calls[k].outcome = "ok" /\ Output(script) \in calls[k].cmd.outs

\* C16: the final "Successfully created" message is printed only if an
\* invocation writing the final output path succeeded in this run; a run in
\* which none did never prints it and never exits 0, even over a stale output
\* of an earlier run.
C16_SuccessMessageOnlyAfterOutputWritten ==
    /\ Printed("Successfully created") => OutputWritten
    /\ (Done /\ ~OutputWritten) => exit # 0

\* the current run has issued an invocation that writes into the temporary
\* directory of the script
TempWrittenThisRun ==
    /\ TempDir(script) # <<>>
    /\ \E k \in 1..Len(calls) :
          \E p \in calls[k].cmd.outs : Under(p, TempDir(script))

\* the files in the temporary directory that no step of the current run
\* wrote
StaleTempFiles ==
    {p \in DOMAIN fs : /\ TempDir(script) # <<>>
                       /\ Under(p, TempDir(script))
                       /\ fs[p].by # "mkdir"
                       /\ fs[p].at # run}

\* C17: in a script with a temporary directory, from the first invocation of
\* the run that writes into the directory on, the directory holds no file
\* left by an earlier run.
C17_TempDirFreshAtFirstWrite ==
    TempWrittenThisRun => StaleTempFiles = {}

====
